---- MODULE Spec2Model ----
(***************************************************************************)
(* State-machine model of plottr/node/fitter_2.py: the FittingGui widget   *)
(* (module / model selection, parameter table, live update, reload), the   *)
(* registry of fitting modules with the import system behind it, and the   *)
(* FittingNode (fitting_options, fitting_process).                         *)
(*                                                                         *)
(* Numbers are integers in thousandths (1000 stands for 1.0).  Optional    *)
(* objects are sequences of length at most one: None is <<>>.              *)
(***************************************************************************)
EXTENDS Integers, Sequences, FiniteSets, TLC

\* ------------------------------------------------------------------ bounds
\* user / upstream operations in one run
MaxOps == 5
\* length of a run of consecutive parameter-field edits that is tracked
MaxBatch == 3

\* --------------------------------------------------------------- encodings
None == <<>>
Some(x) == <<x>>

\* sys.float_info.max, the spin box range limit
MAX_FLOAT == 100000
\* float('inf') / float('-inf'), lmfit's "no bound"
PosInf == 100001
NegInf == -100001
\* Python None in a numeric position
NoneNum == -100002

\* QDoubleSpinBox keeps two decimals: round thousandths to hundredths
SpinRound(v) ==
    IF v >= 0 THEN ((v + 5) \div 10) * 10 ELSE 0 - (((0 - v) + 5) \div 10) * 10

\* NumberInput.value(): eval(text); anything that is not a number is None.
\* The text of a field is represented by the value it was written from:
\* str(None) = 'None', str(-inf) = '-inf', str(inf) = 'inf' do not evaluate.
NumberInput_value(text) ==
    IF text \in {NoneNum, NegInf, PosInf} THEN NoneNum ELSE text

\* lmfit.Parameter as filled in by fittingOptionGetter: min/max None mean
\* -inf/+inf, and the value is kept inside [min, max].
lmParameter(vary, value, min, max) ==
    LET lo == IF min = NoneNum THEN NegInf ELSE min
        hi == IF max = NoneNum THEN PosInf ELSE max
        v  == IF value > hi THEN hi ELSE IF value < lo THEN lo ELSE value
    IN [vary |-> vary, value |-> v, min |-> lo, max |-> hi]

\* ------------------------------------------------------ the model catalogue
\* source files of the built-in fitting modules (the package plottr.analyzer
\* .fitters) by module name
ModuleFiles == [generic |-> "fitters/generic.py", decay |-> "fitters/decay.py"]

\* python files outside the package that the user may open
UserFiles == {"a/decay.py", "b/decay.py", "a/mine.py"}

\* every python file on disk
Files == {ModuleFiles[n] : n \in DOMAIN ModuleFiles} \cup UserFiles

\* mod_file.split('/'): the directory of a path (as add_user_module joins it
\* for a Windows path) and the file name without '.py'
SplitPath(file) ==
    CASE file = "fitters/generic.py" -> [dir |-> "fitters", stem |-> "generic"]
      [] file = "fitters/decay.py" -> [dir |-> "fitters", stem |-> "decay"]
      [] file = "a/decay.py" -> [dir |-> "a", stem |-> "decay"]
      [] file = "b/decay.py" -> [dir |-> "b", stem |-> "decay"]
      [] file = "a/mine.py" -> [dir |-> "a", stem |-> "mine"]

\* the Fit subclasses a file defines, by the version of its content
FileClasses(file, ver) ==
    CASE file = "fitters/generic.py" -> {"Const", "Line"}
      [] file = "fitters/decay.py" ->
             IF ver = 1 THEN {"Exp"} ELSE {"Exp", "Gauss"}
      [] file = "a/decay.py" -> IF ver = 1 THEN {"Slow"} ELSE {"Slow", "Mid"}
      [] file = "b/decay.py" -> {"Fast"}
      [] file = "a/mine.py" -> {"Mine"}

\* inspect.getmembers(module): the names in the namespace of a module that
\* executed that content; every fitting module imports Fit and numpy
FileMembers(file, ver) ==
    {[name |-> n, kind |-> "model"] : n \in FileClasses(file, ver)}
    \cup {[name |-> "Fit", kind |-> "base"], [name |-> "np", kind |-> "other"]}

\* is_Fit_subclass(cls): a subclass of Fit that is not Fit itself
is_Fit_subclass(member) == member.kind = "model"

\* inspect.signature(model_cls.model).parameters, independent variable first
Signature(name) ==
    IF name = "Const" THEN <<"x", "c">>
    ELSE IF name = "Line" THEN <<"x", "m", "b">>
    ELSE IF name = "Exp" THEN <<"x", "a">>
    ELSE IF name = "Gauss" THEN <<"x", "a", "w">>
    ELSE IF name \in {"Slow", "Mid", "Fast"} THEN <<"x", "k">>
    ELSE IF name = "Mine" THEN <<"x", "p">>
    ELSE <<"x">>

\* a model class: __qualname__, inspect.getsourcefile, and the version of the
\* file content that defined it
Class(file, name, ver) == [file |-> file, name |-> name, ver |-> ver]

\* a module object: __name__, __file__ and the content it executed
Module(name, file, ver) == [name |-> name, file |-> file, ver |-> ver]

\* '.' + modname under the package: the __name__ of a built-in module
PkgName(modname) == "fitters." \o modname

\* names a module can be imported under
ModuleNames ==
    {PkgName(n) : n \in DOMAIN ModuleFiles}
    \cup {SplitPath(f).stem : f \in UserFiles}

\* get_modules_in_pkg(fitters): module name -> module object, each imported
\* from the content the file has at that time
get_modules_in_pkg(content) ==
    [n \in DOMAIN ModuleFiles |->
        Module(PkgName(n), ModuleFiles[n], content[ModuleFiles[n]])]

\* the content of every file when the program starts
InitialDisk == [f \in Files |-> 1]

INITIAL_MODULES == get_modules_in_pkg(InitialDisk)

\* the model dict of get_models_in_module: the Fit subclasses among the members
\* of a module object
ModelDict(module) ==
    {m.name : m \in {x \in FileMembers(module.file, module.ver) :
                        is_Fit_subclass(x)}}

\* hasattr / getattr(module, name) on a module object
hasattr(module, name) ==
    \E m \in FileMembers(module.file, module.ver) : m.name = name

getattr(module, name) == Class(module.file, name, module.ver)

\* @dataclass FittingOptions(model, parameters): no validation
FittingOptions(model, parameters) == [model |-> model, parameters |-> parameters]

\* declared parameter names of a model class, without the independent variable
DeclaredParams(cls) ==
    {Signature(cls.name)[i] : i \in 2..Len(Signature(cls.name))}

\* ------------------------------------------------------------------- state
VARIABLES
    fitting_modules,   \* FittingGui.fitting_modules: module name -> module object
    module_combo,      \* current text of the module combo box
    model_list,        \* items of the model list widget
    currentItem,       \* model_list.currentItem(): None or Some(name)
    param_table,       \* rows of the parameter table, in order
    param_signals,     \* FittingGui.param_signals: [n, of]; of is "rows" (the
                       \* current rows), "orphan" (removed rows whose widgets
                       \* still exist) or "deleted" (widgets destroyed)
    param_conn,        \* connections of each row signal to _signalAllOptions
    model_conn,        \* connections of currentItemChanged to _signalAllOptions
    liveUpdateCheck,   \* state of the 'Live Update' check box
    live_update,       \* FittingGui.live_update
    input_options,     \* FittingGui.input_options
    emitGuiChange,     \* NodeWidget._emitGuiChange
    fitting_options,   \* FittingNode._fitting_options
    heap,              \* dataset objects by identity
    dataIn,            \* the object at the node's input: None or Some(id)
    dataOut,           \* the object process returned last: None or Some(id)
    arrived,           \* the input dataset as it was when it arrived
    log,               \* what the last operation did
    batch,             \* the current run of consecutive parameter-field edits
    ops,               \* operations performed so far
    module_items,      \* items of the module combo box, in order
    sys_modules,       \* sys.modules: module name -> None or Some(module)
    sys_path,          \* the directories add_user_module appended to sys.path
    disk,              \* version of the content of every file on disk
    module_keys,       \* the keys of the dict INITIAL_MODULES, in dict order
    peer               \* a second FittingGui of the same program: None, or
                       \* Some(record of the fields that are its own)

vars == <<fitting_modules, module_combo, model_list, currentItem, param_table,
          param_signals, param_conn, model_conn, liveUpdateCheck, live_update,
          input_options, emitGuiChange, fitting_options, heap, dataIn, dataOut,
          arrived, log, batch, ops, module_items, sys_modules, sys_path, disk,
          module_keys, peer>>

\* the state as one record, so that handlers can call each other
World ==
    [fitting_modules |-> fitting_modules, module_combo |-> module_combo,
     model_list |-> model_list, currentItem |-> currentItem,
     param_table |-> param_table, param_signals |-> param_signals,
     param_conn |-> param_conn, model_conn |-> model_conn,
     liveUpdateCheck |-> liveUpdateCheck, live_update |-> live_update,
     input_options |-> input_options, emitGuiChange |-> emitGuiChange,
     fitting_options |-> fitting_options, heap |-> heap, dataIn |-> dataIn,
     dataOut |-> dataOut, log |-> log, module_items |-> module_items,
     sys_modules |-> sys_modules, sys_path |-> sys_path, disk |-> disk,
     module_keys |-> module_keys]

\* the record of one operation
NewLog(op) ==
    [op |-> op,              \* the operation
     events |-> 0,           \* aggregated options-changed events raised
     calls |-> 0,            \* process calls made
     notified |-> 0,         \* default_fitting_options emissions
     adopted |-> FALSE,      \* upstream options were adopted
     path |-> "none",        \* branch the last process call took
     fitOpts |-> None,       \* options the engine was run with, last call
     entryOpts |-> None,     \* active options on entry to the last call
     frame |-> TRUE,         \* no call that started with options set changed
                             \* them or emitted default_fitting_options
     raised |-> "none",      \* exception raised by a handler
     reported |-> "none",    \* exception that left a slot unhandled
     applying |-> FALSE,     \* fittingOptionSetter is at work
     during |-> {},          \* options delivered to the node meanwhile
     picked |-> "",          \* the file the user opened
     entryFiles |-> {}]      \* files of the registered modules on entry to
                             \* the last process call

Begin(op, s) == [s EXCEPT !.log = NewLog(op)]

Raise(s, exc) == [s EXCEPT !.log.raised = exc]

\* a slot called by a signal returns: an exception it let through is reported
\* and the code that emitted the signal goes on
SlotReturn(s) ==
    IF s.log.raised = "none" THEN s
    ELSE [s EXCEPT !.log.reported = s.log.raised, !.log.raised = "none"]

\* ------------------------------------------------------------ import system
\* sys.path.append(mod_dir) with the directory put in front instead
sys_path_append_first(path, mod_dir) == <<mod_dir>> \o path

\* sys.path.append(mod_dir)
sys_path_append(path, mod_dir) == Append(path, mod_dir)

\* the files named name.py in the directory dir
FilesIn(dir, name) ==
    {f \in Files : SplitPath(f) = [dir |-> dir, stem |-> name]}

\* the import system's finder: a module of the package is found in the
\* package, a top-level name in the first directory of sys.path that has it
find_spec(path, name) ==
    IF \E n \in DOMAIN ModuleFiles : PkgName(n) = name
    THEN Some(ModuleFiles[CHOOSE n \in DOMAIN ModuleFiles : PkgName(n) = name])
    ELSE LET hits == {i \in DOMAIN path : FilesIn(path[i], name) # {}}
         IN IF hits = {} THEN None
            ELSE Some(CHOOSE f \in Files :
                         \E i \in hits :
                            /\ \A j \in hits : i <= j
                            /\ f \in FilesIn(path[i], name))

\* the module import_module(name) loads when sys.modules does not have it
LoadModule(s, name, found) ==
    IF found = None THEN Raise(s, "ModuleNotFoundError")
    ELSE [s EXCEPT !.sys_modules[name] =
                       Some(Module(name, found[1], s.disk[found[1]]))]

\* importlib.import_module(name): the module is then sys.modules[name]
import_module(s, name) ==
    IF s.sys_modules[name] # None THEN s
    ELSE LoadModule(s, name, find_spec(s.sys_path, name))

\* get_models_in_module without 'del sys.modules[module.__name__]'
del_sys_modules_skipped(s, name) == s

\* lines 40-43: del sys.modules[module.__name__]
del_sys_modules(s, name) == [s EXCEPT !.sys_modules[name] = None]

\* get_models_in_module(module): the module is imported again by its name;
\* the model dict is ModelDict of sys.modules[module.__name__] afterwards
get_models_in_module(s, module) ==
    import_module(del_sys_modules(s, module.name), module.name)

\* ---------------------------------------------------------------- datasets
InId == 1
OutId == 2

\* DataDictBase.copy()
DataDict_copy(d) == d

\* the fitting engine: model(x, y).run(params).lmfit_result
FitRun(d, opts) ==
    [success |-> d.conv,
     best_fit |-> <<"best_fit", opts.model.name>>,
     fit_report |-> <<"report", opts.model.name>>]

\* ------------------------------------------------------ FittingGui handlers
RECURSIVE fitting_process(_)
RECURSIVE Emit(_, _)
RECURSIVE SetRows(_, _, _)

\* one row of the parameter table as updateParamTable builds it
NewRow(name) ==
    [name |-> name, fix |-> FALSE, guess |-> SpinRound(1000),
     lower |-> NoneNum, upper |-> NoneNum,
     min |-> 0 - MAX_FLOAT, max |-> MAX_FLOAT]

fittingOptionGetter(s) ==
    IF s.currentItem = None THEN None
    ELSE LET current_module == s.fitting_modules[s.module_combo]
             model == getattr(current_module, s.currentItem[1])
             names == {s.param_table[i].name : i \in DOMAIN s.param_table}
             row(n) == CHOOSE r \in {s.param_table[i] : i \in DOMAIN s.param_table} :
                          r.name = n
             parameters ==
                 [n \in names |->
                     lmParameter(~row(n).fix, row(n).guess,
                                 NumberInput_value(row(n).lower),
                                 NumberInput_value(row(n).upper))]
         IN Some(FittingOptions(model, parameters))

\* the log of a process call that took state s to state r
Observe(s, r) ==
    [r EXCEPT !.log.frame =
        @ /\ (s.fitting_options # None =>
                 /\ r.fitting_options = s.fitting_options
                 /\ r.log.notified = s.log.notified)]

\* FittingNode.process(dataIn); the log keeps what the call started with
process(s) ==
    Observe(s, fitting_process(
                   [s EXCEPT !.log.entryOpts = s.fitting_options,
                             !.log.entryFiles =
                                 {s.fitting_modules[n].file :
                                     n \in DOMAIN s.fitting_modules}]))

\* Node.update: run process on the current input and publish its result
Node_update(s) == process(s)

\* FittingNode.fitting_options setter, with @updateOption
fitting_options_setter(s, opt) ==
    Node_update([s EXCEPT !.fitting_options = opt])

\* NodeWidget.signalAllOptions: the aggregated options-changed event
\* line 367: the selected name is no attribute of the module in the registry
GetterRaises(s) ==
    /\ s.currentItem # None
    /\ ~hasattr(s.fitting_modules[s.module_combo], s.currentItem[1])

signalAllOptions(s) ==
    IF GetterRaises(s) THEN Raise(s, "AttributeError")
    ELSE IF ~s.emitGuiChange THEN s
    ELSE fitting_options_setter(
             [s EXCEPT !.log.events = @ + 1,
                       !.log.during = IF s.log.applying
                                      THEN @ \cup {fittingOptionGetter(s)}
                                      ELSE @],
             fittingOptionGetter(s))

_signalAllOptions(s) ==
    IF s.currentItem # None THEN signalAllOptions(s) ELSE s

\* a signal with n connections to _signalAllOptions is emitted
Emit(s, n) ==
    IF n = 0 THEN s ELSE Emit(SlotReturn(_signalAllOptions(s)), n - 1)

changeParamLiveUpdate(s, enable) ==
    IF s.param_signals.n = 0 \/ s.param_signals.of = "orphan" THEN s
    ELSE IF s.param_signals.of = "deleted" THEN Raise(s, "RuntimeError")
    ELSE IF enable THEN [s EXCEPT !.param_conn = @ + 1]
    ELSE [s EXCEPT !.param_conn = 0]

\* updateParamTable connecting the live-update slot before the rows are rebuilt
updateParamTable_connectsFirst(s, model_cls) ==
    LET sig == Signature(model_cls.name)
        params == [i \in 1..(Len(sig) - 1) |-> sig[i + 1]]
    IN [changeParamLiveUpdate(s, s.live_update) EXCEPT !.param_table = [i \in DOMAIN params |-> NewRow(params[i])],
                  !.param_signals = [n |-> 4 * Len(params), of |-> "rows"],
                  !.param_conn = 0]

updateParamTable(s, model_cls) ==
    LET sig == Signature(model_cls.name)
        params == [i \in 1..(Len(sig) - 1) |-> sig[i + 1]]
        s1 == [s EXCEPT !.param_table = [i \in DOMAIN params |-> NewRow(params[i])],
                        !.param_signals = [n |-> 4 * Len(params), of |-> "rows"],
                        !.param_conn = 0]
    IN changeParamLiveUpdate(s1, s.live_update)

\* modelChanged leaving the table as it is when the selection is cleared
modelChanged_keepsRows(s, current) ==
    IF current = None THEN s
    ELSE LET current_module == s.fitting_modules[s.module_combo]
             model_cls == getattr(current_module, current[1])
         IN IF ~hasattr(current_module, current[1])
            THEN Raise(s, "AttributeError")
            ELSE updateParamTable(s, model_cls)

modelChanged(s, current) ==
    IF current = None
    THEN [s EXCEPT !.param_table = <<>>, !.param_conn = 0,
                   !.param_signals.of = IF s.param_signals.n = 0
                                        THEN @ ELSE "orphan"]
    ELSE LET current_module == s.fitting_modules[s.module_combo]
             model_cls == getattr(current_module, current[1])
         IN IF ~hasattr(current_module, current[1])
            THEN Raise(s, "AttributeError")
            ELSE updateParamTable(s, model_cls)

\* QListWidget: the current item changes and currentItemChanged is emitted to
\* modelChanged and then to every connection of _signalAllOptions
setCurrentItem(s, item) ==
    IF item = s.currentItem THEN s
    ELSE Emit(SlotReturn(modelChanged([s EXCEPT !.currentItem = item], item)),
              s.model_conn)

\* lines 172-173: the list shows the names of the model dict
FillModelList(s, name) ==
    IF s.log.raised # "none" THEN s
    ELSE [s EXCEPT !.model_list = ModelDict(s.sys_modules[name][1])]

moduleUpdate(s, current_module_name) ==
    FillModelList(
        get_models_in_module(setCurrentItem(s, None),
                             s.fitting_modules[current_module_name]),
        s.fitting_modules[current_module_name].name)

\* QComboBox.setCurrentText: the item with that text, if there is one and it
\* is not the current one, becomes current and currentTextChanged goes to
\* moduleUpdate
setCurrentText(s, name) ==
    IF name = s.module_combo THEN s
    ELSE IF \A i \in DOMAIN s.module_items : s.module_items[i] # name THEN s
    ELSE SlotReturn(moduleUpdate([s EXCEPT !.module_combo = name], name))

\* a row signal (stateChanged, valueChanged, newTextEntered) is emitted
ParamSignal(s) == Emit(s, s.param_conn)

\* QCheckBox.setChecked
setChecked(s, i, b) ==
    IF s.param_table[i].fix = b THEN s
    ELSE ParamSignal([s EXCEPT !.param_table[i].fix = b])

\* QDoubleSpinBox.setValue: rounded, kept in range, valueChanged on change
SpinSetValue(s, i, v) ==
    LET r == s.param_table[i]
        w == SpinRound(v)
        new == IF w > r.max THEN r.max ELSE IF w < r.min THEN r.min ELSE w
    IN IF new = r.guess THEN s
       ELSE ParamSignal([s EXCEPT !.param_table[i].guess = new])

\* OptionSpinbox.setMinimum(text)
OptionSpinbox_setMinimum(s, i, text) ==
    LET value == NumberInput_value(text)
        m == IF value = NoneNum THEN 0 - MAX_FLOAT ELSE SpinRound(value)
        r == s.param_table[i]
        s1 == [s EXCEPT !.param_table[i].min = m,
                        !.param_table[i].max = IF r.max > m THEN r.max ELSE m]
    IN SpinSetValue(s1, i, r.guess)

\* OptionSpinbox.setMaximum(text)
OptionSpinbox_setMaximum(s, i, text) ==
    LET value == NumberInput_value(text)
        m == IF value = NoneNum THEN MAX_FLOAT ELSE SpinRound(value)
        r == s.param_table[i]
        s1 == [s EXCEPT !.param_table[i].max = m,
                        !.param_table[i].min = IF r.min < m THEN r.min ELSE m]
    IN SpinSetValue(s1, i, r.guess)

\* the loop of fittingOptionSetter over the rows of the table
SetRows(s, i, parameters) ==
    IF i > Len(s.param_table) \/ s.log.raised # "none" THEN s
    ELSE LET param_name == s.param_table[i].name IN
         IF param_name \notin DOMAIN parameters THEN Raise(s, "KeyError")
         ELSE LET po == parameters[param_name]
              IN SetRows([SpinSetValue(setChecked(s, i, ~po.vary), i, po.value)
                             EXCEPT !.param_table[i].lower = po.min,
                                    !.param_table[i].upper = po.max],
                         i + 1, parameters)

\* lines 407-418: select the model in the list when the list has it
SetModelItem(s, model) ==
    IF model.name \in s.model_list
    THEN setCurrentItem(s, Some(model.name))
    ELSE s

\* lines 399-405: the registered modules whose file is the model's source file
ModulesOf(s, model) ==
    {n \in DOMAIN s.fitting_modules : s.fitting_modules[n].file = model.file}

\* the work of fittingOptionSetter is over
SetterDone(s) == [s EXCEPT !.log.applying = FALSE]

fittingOptionSetter(s, fitting_options_) ==
    IF fitting_options_ = None THEN s
    ELSE LET fo == fitting_options_[1]
             model == fo.model
             found == ModulesOf(s, model)
         IN IF found = {} THEN Raise(s, "NotImplementedError")
            ELSE SetterDone(
                     SetRows(SetModelItem(
                                 setCurrentText([s EXCEPT !.log.applying = TRUE],
                                                CHOOSE n \in found : TRUE),
                                 model),
                             1, fo.parameters))

\* lines 222-224: the module is registered and selected
AddModule(s, mod_name, user_module) ==
    setCurrentText(
        [s EXCEPT !.fitting_modules =
                      [n \in DOMAIN @ \cup {mod_name} |->
                          IF n = mod_name THEN user_module ELSE @[n]],
                  !.module_keys =
                      IF mod_name \in DOMAIN s.fitting_modules THEN @
                      ELSE Append(@, mod_name),
                  !.module_items = Append(@, mod_name)],
        mod_name)

\* lines 208-224, reached when the import did not raise
RegisterModule(s, mod_name, mod_dir) ==
    IF s.log.raised # "none" THEN s
    ELSE LET user_module == s.sys_modules[mod_name][1] IN
         IF mod_name \in DOMAIN s.fitting_modules
         THEN IF \E n \in DOMAIN s.fitting_modules :
                    user_module.file = s.fitting_modules[n].file
              THEN moduleUpdate(setCurrentText(s, mod_name), mod_name)
              ELSE AddModule(s, mod_name \o "(" \o mod_dir \o ")", user_module)
         ELSE AddModule(s, mod_name, user_module)

\* add_user_module; mod_file is what the file dialog returned, "" when the
\* dialog was cancelled
add_user_module(s, mod_file) ==
    IF mod_file \notin Files THEN s
    ELSE LET mod_name == SplitPath(mod_file).stem
             mod_dir == SplitPath(mod_file).dir
         IN RegisterModule(
                import_module(
                    [s EXCEPT !.sys_path = sys_path_append(@, mod_dir)],
                    mod_name),
                mod_name, mod_dir)

\* FittingGui.setDefaultFit, with @updateGuiFromNode
\* line 453 without the test of line 452
RememberInput_always(s, fitting_options_) ==
    IF s.log.raised # "none" THEN s
    ELSE [s EXCEPT !.input_options = fitting_options_,
                   !.emitGuiChange = TRUE]

\* lines 452-453, and the end of @updateGuiFromNode
RememberInput(s, fitting_options_) ==
    IF s.log.raised # "none" THEN s
    ELSE [s EXCEPT !.input_options = IF @ = None THEN fitting_options_ ELSE @,
                   !.emitGuiChange = TRUE]

setDefaultFit(s, fitting_options_) ==
    RememberInput(fittingOptionSetter([s EXCEPT !.emitGuiChange = FALSE],
                                      fitting_options_),
                  fitting_options_)

\* ------------------------------------------------------------- FittingNode
\* line 547: the input is not single-axis, single-dependent
IsPassThrough_and(d) == Len(d.axes) > 1 /\ Len(d.deps) > 1

IsPassThrough(d) == Len(d.axes) > 1 \/ Len(d.deps) > 1

\* line 553: the node may take options from the input
MayAdopt_always(s) == TRUE

MayAdopt(s) == s.fitting_options = None

\* lines 567-579 with the test of lm_result.success left out
FitStep_ignoresSuccess(s, d) ==
    LET opts == s.fitting_options[1]
        lm_result == FitRun(d, opts)
        axname == d.axes[1]
        out == [DataDict_copy(d) EXCEPT
                   !.fit = Some([values |-> lm_result.best_fit,
                                 axes |-> <<axname>>]),
                   !.info = Some(lm_result.fit_report)]
    IN [s EXCEPT !.heap[OutId] = Some(out), !.dataOut = Some(OutId),
                 !.log.fitOpts = s.fitting_options,
                 !.log.path = IF lm_result.success THEN "success" ELSE "failure"]

\* lines 567-579 with the fit tagged with the dependent instead of the axis
FitStep_wrongAxes(s, d) ==
    LET opts == s.fitting_options[1]
        lm_result == FitRun(d, opts)
        axname == d.deps[1]
        out == IF lm_result.success
               THEN [DataDict_copy(d) EXCEPT
                        !.fit = Some([values |-> lm_result.best_fit,
                                      axes |-> <<axname>>]),
                        !.info = Some(lm_result.fit_report)]
               ELSE DataDict_copy(d)
    IN [s EXCEPT !.heap[OutId] = Some(out), !.dataOut = Some(OutId),
                 !.log.fitOpts = s.fitting_options,
                 !.log.path = IF lm_result.success THEN "success" ELSE "failure"]

\* lines 567-579: run the engine with the active options
FitStep(s, d) ==
    LET opts == s.fitting_options[1]
        lm_result == FitRun(d, opts)
        axname == d.axes[1]
        out == IF lm_result.success
               THEN [DataDict_copy(d) EXCEPT
                        !.fit = Some([values |-> lm_result.best_fit,
                                      axes |-> <<axname>>]),
                        !.info = Some(lm_result.fit_report)]
               ELSE DataDict_copy(d)
    IN [s EXCEPT !.heap[OutId] = Some(out), !.dataOut = Some(OutId),
                 !.log.fitOpts = s.fitting_options,
                 !.log.path = IF lm_result.success THEN "success" ELSE "failure"]

\* fitting_process returning right after it adopted the input's options
fitting_process_returnsOnAdopt(s0) ==
    LET s == [s0 EXCEPT !.log.calls = @ + 1, !.log.fitOpts = None] IN
    IF s.dataIn = None THEN [s EXCEPT !.dataOut = None, !.log.path = "null"]
    ELSE LET d == s.heap[s.dataIn[1]][1] IN
         IF IsPassThrough(d)
         THEN [s EXCEPT !.dataOut = s.dataIn, !.log.path = "multi"]
         ELSE LET dataIn_opt == d.opts IN
              IF MayAdopt(s)
              THEN IF dataIn_opt # None
                   THEN [SlotReturn(setDefaultFit(
                                        [s EXCEPT !.log.notified = @ + 1],
                                        dataIn_opt))
                            EXCEPT !.fitting_options = dataIn_opt,
                                      !.log.adopted = TRUE,
                                      !.heap[OutId] = Some(DataDict_copy(d)),
                                      !.dataOut = Some(OutId),
                                      !.log.path = "nooptions"]
                   ELSE [s EXCEPT !.heap[OutId] = Some(DataDict_copy(d)),
                                  !.dataOut = Some(OutId),
                                  !.log.path = "nooptions"]
              ELSE FitStep(s, d)

fitting_process(s0) ==
    LET s == [s0 EXCEPT !.log.calls = @ + 1, !.log.fitOpts = None] IN
    IF s.dataIn = None THEN [s EXCEPT !.dataOut = None, !.log.path = "null"]
    ELSE LET d == s.heap[s.dataIn[1]][1] IN
         IF IsPassThrough(d)
         THEN [s EXCEPT !.dataOut = s.dataIn, !.log.path = "multi"]
         ELSE LET dataIn_opt == d.opts IN
              IF MayAdopt(s)
              THEN IF dataIn_opt # None
                   THEN FitStep([SlotReturn(setDefaultFit(
                                     [s EXCEPT !.log.notified = @ + 1],
                                     dataIn_opt))
                                 EXCEPT !.fitting_options = dataIn_opt,
                                        !.log.adopted = TRUE], d)
                   ELSE [s EXCEPT !.heap[OutId] = Some(DataDict_copy(d)),
                                  !.dataOut = Some(OutId),
                                  !.log.path = "nooptions"]
              ELSE FitStep(s, d)

\* setLiveUpdate(live), the slot of the 'Live Update' check box
\* lines 316 and 324: reached unless changeParamLiveUpdate raised
SetLiveFlag(s, live) ==
    IF s.log.raised # "none" THEN s ELSE [s EXCEPT !.live_update = live]

setLiveUpdate(s, live) ==
    IF live
    THEN SetLiveFlag(changeParamLiveUpdate([s EXCEPT !.model_conn = @ + 1], TRUE),
                     TRUE)
    ELSE SetLiveFlag(changeParamLiveUpdate([s EXCEPT !.model_conn = 0], FALSE),
                     FALSE)

\* reloadInputOption, the slot of the 'Reload Input Option' button
reloadInputOption(s) == fittingOptionSetter(s, s.input_options)

\* NumberInput.emitNewText of a lower bound field: newTextEntered goes to
\* initialGuessBox.setMinimum and then to the live-update connections
LowerEntered(s, i, text) ==
    ParamSignal(OptionSpinbox_setMinimum(
                    [s EXCEPT !.param_table[i].lower = text], i, text))

UpperEntered(s, i, text) ==
    ParamSignal(OptionSpinbox_setMaximum(
                    [s EXCEPT !.param_table[i].upper = text], i, text))

\* ------------------------------------------------------------------ inputs
Param(vary, value, min, max) ==
    [vary |-> vary, value |-> value, min |-> min, max |-> max]

OptA ==
    FittingOptions(Class("fitters/generic.py", "Const", 1),
                   [n \in {"c"} |-> Param(TRUE, 1234, NegInf, PosInf)])
OptB ==
    FittingOptions(Class("fitters/decay.py", "Exp", 1),
                   [n \in {"a"} |-> Param(FALSE, 2000, 1500, PosInf)])
\* options that carry a parameter the model does not declare
OptExtra ==
    FittingOptions(Class("fitters/generic.py", "Const", 1),
                   [n \in {"c", "zz"} |-> Param(TRUE, 1000, NegInf, PosInf)])

UpstreamOptions == {OptA, OptB, OptExtra}

Shapes ==
    {<<<<"t">>, <<"y">>>>, <<<<"t", "u">>, <<"y">>>>, <<<<"t">>, <<"y", "z">>>>}

Dataset(shape, opts, conv) ==
    [axes |-> shape[1], deps |-> shape[2], opts |-> opts, conv |-> conv,
     fit |-> None, info |-> None, mark |-> 0]

Single == <<<<"t">>, <<"y">>>>

Datasets ==
    {Dataset(Single, o, c) : o \in {None} \cup {Some(u) : u \in UpstreamOptions},
                             c \in BOOLEAN}
    \cup {Dataset(sh, o, TRUE) : sh \in Shapes \ {Single},
                                 o \in {None, Some(OptA)}}

\* options whose model is defined by a file outside the package
OptSlow ==
    FittingOptions(Class("a/decay.py", "Slow", 1),
                   [n \in {"k"} |-> Param(TRUE, 1000, NegInf, PosInf)])

\* the inputs of the runs in which sources are added and edited
UserDatasets == {Dataset(Single, Some(o), TRUE) : o \in {OptSlow, OptB}}

\* what the file dialog of add_user_module may return
DialogResults == UserFiles \cup {"fitters/decay.py", ""}

\* the files whose content an author edits while the program runs
Editable == {"fitters/decay.py", "a/decay.py"}

GuessInputs == {1000, 2000}
BoundTexts == {NoneNum, 1500}

\* ------------------------------------------------------------------ actions
ZeroBatch == [edits |-> 0, events |-> 0, calls |-> 0, fields |-> {}]

\* the state after the operation is s; b is the run of edits it leaves
Commit(s, b) ==
    /\ fitting_modules' = s.fitting_modules
    /\ module_combo' = s.module_combo
    /\ model_list' = s.model_list
    /\ currentItem' = s.currentItem
    /\ param_table' = s.param_table
    /\ param_signals' = s.param_signals
    /\ param_conn' = s.param_conn
    /\ model_conn' = s.model_conn
    /\ liveUpdateCheck' = s.liveUpdateCheck
    /\ live_update' = s.live_update
    /\ input_options' = s.input_options
    /\ emitGuiChange' = s.emitGuiChange
    /\ fitting_options' = s.fitting_options
    /\ heap' = s.heap
    /\ dataIn' = s.dataIn
    /\ dataOut' = s.dataOut
    /\ log' = s.log
    /\ batch' = b
    /\ ops' = ops + 1
    /\ module_items' = s.module_items
    /\ sys_modules' = s.sys_modules
    /\ sys_path' = s.sys_path
    /\ disk' = s.disk
    /\ module_keys' = s.module_keys
    /\ peer' = peer

\* the run of edits after one more edit, of field f, that left state s
Extend(s, f) ==
    IF batch.edits < MaxBatch
    THEN [edits |-> batch.edits + 1, events |-> batch.events + s.log.events,
          calls |-> batch.calls + s.log.calls, fields |-> batch.fields \cup {f}]
    ELSE [edits |-> 1, events |-> s.log.events, calls |-> s.log.calls,
          fields |-> {f}]

Init ==
    /\ fitting_modules = INITIAL_MODULES
    /\ module_items = <<"decay", "generic">>
    /\ module_combo = module_items[1]
    /\ model_list = ModelDict(INITIAL_MODULES[module_items[1]])
    /\ sys_modules = [n \in ModuleNames |->
                         IF \E k \in DOMAIN INITIAL_MODULES :
                                INITIAL_MODULES[k].name = n
                         THEN Some(CHOOSE m \in {INITIAL_MODULES[k] :
                                                    k \in DOMAIN INITIAL_MODULES} :
                                       m.name = n)
                         ELSE None]
    /\ sys_path = <<>>
    /\ disk = InitialDisk
    /\ module_keys = <<"decay", "generic">>
    /\ peer = None
    /\ currentItem = None
    /\ param_table = <<>>
    /\ param_signals = [n |-> 0, of |-> "rows"]
    /\ param_conn = 0
    /\ model_conn = 0
    /\ liveUpdateCheck = FALSE
    /\ live_update = FALSE
    /\ input_options = None
    /\ emitGuiChange = TRUE
    /\ fitting_options = None
    /\ heap = [i \in {InId, OutId} |-> None]
    /\ dataIn = None
    /\ dataOut = None
    /\ arrived = None
    /\ log = NewLog("init")
    /\ batch = ZeroBatch
    /\ ops = 0

\* the flowchart calls process(dataIn) with the dataset d
Arrival(d) ==
    LET s0 == [Begin("process", World) EXCEPT
                  !.heap[InId] = Some(d), !.dataIn = Some(InId)]
    IN /\ Commit(process(s0), ZeroBatch)
       /\ arrived' = Some(d)

\* upstream data arrives
Process ==
    /\ ops < MaxOps
    /\ \E d \in Datasets : Arrival(d)

\* the node's option is set through its property
SetOption ==
    /\ ops < MaxOps
    /\ \E o \in UpstreamOptions :
          Commit(fitting_options_setter(Begin("setter", World), Some(o)),
                 ZeroBatch)
    /\ UNCHANGED arrived

\* the user picks a module in the combo box
SelectModule ==
    /\ ops < MaxOps
    /\ \E name \in DOMAIN fitting_modules :
          /\ name # module_combo
          /\ Commit(setCurrentText(Begin("module", World), name), ZeroBatch)
    /\ UNCHANGED arrived

\* the user presses the refresh button
ModuleRefresh ==
    /\ ops < MaxOps
    /\ Commit(moduleUpdate(Begin("refresh", World), module_combo), ZeroBatch)
    /\ UNCHANGED arrived

\* the user picks a model in the list
SelectModel ==
    /\ ops < MaxOps
    /\ \E name \in model_list :
          /\ Some(name) # currentItem
          /\ Commit(setCurrentItem(Begin("model", World), Some(name)), ZeroBatch)
    /\ UNCHANGED arrived

\* the user toggles 'Live Update'; widgets of removed rows may be destroyed
ToggleLive ==
    /\ ops < MaxOps
    /\ \E gone \in (IF param_signals.of = "orphan" THEN BOOLEAN ELSE {FALSE}) :
          LET s0 == [Begin("live", World) EXCEPT
                        !.liveUpdateCheck = ~liveUpdateCheck,
                        !.param_signals.of = IF gone THEN "deleted" ELSE @]
          IN Commit(setLiveUpdate(s0, ~liveUpdateCheck), ZeroBatch)
    /\ UNCHANGED arrived

\* the user edits one field of one parameter row
EditFix ==
    /\ ops < MaxOps
    /\ \E i \in DOMAIN param_table :
          LET s == setChecked(Begin("edit", World), i, ~param_table[i].fix)
          IN Commit(s, Extend(s, <<i, "fix">>))
    /\ UNCHANGED arrived

EditGuess ==
    /\ ops < MaxOps
    /\ \E i \in DOMAIN param_table, v \in GuessInputs :
          LET s == SpinSetValue(Begin("edit", World), i, v)
          IN /\ s.param_table[i].guess # param_table[i].guess
             /\ Commit(s, Extend(s, <<i, "guess">>))
    /\ UNCHANGED arrived

EditLower ==
    /\ ops < MaxOps
    /\ \E i \in DOMAIN param_table, text \in BoundTexts :
          LET s == LowerEntered(Begin("edit", World), i, text)
          IN Commit(s, Extend(s, <<i, "lower">>))
    /\ UNCHANGED arrived

EditUpper ==
    /\ ops < MaxOps
    /\ \E i \in DOMAIN param_table, text \in BoundTexts :
          LET s == UpperEntered(Begin("edit", World), i, text)
          IN Commit(s, Extend(s, <<i, "upper">>))
    /\ UNCHANGED arrived

\* the user presses 'Fit'
PressFit ==
    /\ ops < MaxOps
    /\ Commit(signalAllOptions(Begin("fit", World)), ZeroBatch)
    /\ UNCHANGED arrived

\* the user presses 'Reload Input Option'
Reload ==
    /\ ops < MaxOps
    /\ Commit(reloadInputOption(Begin("reload", World)), ZeroBatch)
    /\ UNCHANGED arrived

\* a consumer of the node's output writes to the dataset it received
DownstreamWrite ==
    /\ dataOut # None
    /\ heap[dataOut[1]][1].mark = 0
    /\ heap' = [heap EXCEPT ![dataOut[1]] = Some([@[1] EXCEPT !.mark = 1])]
    /\ ops < MaxOps
    /\ log' = [log EXCEPT !.op = "write"]
    /\ ops' = ops + 1
    /\ batch' = ZeroBatch
    /\ UNCHANGED <<fitting_modules, module_combo, model_list, currentItem,
                   param_table, param_signals, param_conn, model_conn,
                   liveUpdateCheck, live_update, input_options, emitGuiChange,
                   fitting_options, dataIn, dataOut, arrived, module_items,
                   sys_modules, sys_path, disk, module_keys, peer>>

Next ==
    \/ Process
    \/ SetOption
    \/ SelectModule
    \/ ModuleRefresh
    \/ SelectModel
    \/ ToggleLive
    \/ EditFix
    \/ EditGuess
    \/ EditLower
    \/ EditUpper
    \/ PressFit
    \/ Reload
    \/ DownstreamWrite

Spec == Init /\ [][Next]_vars

\* -------------------------------------------- runs with sources added, edited
\* upstream data with options of the package or of a user file arrives
ProcessUser ==
    /\ ops < MaxOps
    /\ \E d \in UserDatasets : Arrival(d)

\* the user presses '+' and the file dialog returns
AddUserModule ==
    /\ ops < MaxOps
    /\ \E mod_file \in DialogResults :
          Commit(add_user_module([Begin("add", World) EXCEPT
                                     !.log.picked = mod_file], mod_file),
                 ZeroBatch)
    /\ UNCHANGED arrived

\* an author saves a new content of a source file
ChangeSource ==
    /\ ops < MaxOps
    /\ \E f \in Editable : disk' = [disk EXCEPT ![f] = 3 - @]
    /\ log' = NewLog("save")
    /\ ops' = ops + 1
    /\ batch' = ZeroBatch
    /\ UNCHANGED <<fitting_modules, module_combo, model_list, currentItem,
                   param_table, param_signals, param_conn, model_conn,
                   liveUpdateCheck, live_update, input_options, emitGuiChange,
                   fitting_options, heap, dataIn, dataOut, arrived,
                   module_items, sys_modules, sys_path, module_keys, peer>>

NextUser ==
    \/ ChangeSource
    \/ AddUserModule
    \/ SelectModule
    \/ ModuleRefresh
    \/ SelectModel
    \/ PressFit
    \/ ProcessUser

SpecUser == Init /\ [][NextUser]_vars

\* ------------------------------- runs of arrivals, option changes and reloads
NextReload ==
    \/ Process
    \/ SetOption
    \/ SelectModule
    \/ SelectModel
    \/ ToggleLive
    \/ EditGuess
    \/ PressFit
    \/ Reload

SpecReload == Init /\ [][NextReload]_vars

\* ------------------------------------------- runs with two widgets in one program
\* what every FittingGui of the program shares: the dict INITIAL_MODULES, which
\* line 96 binds to self.fitting_modules, and the interpreter's import state
SharedFields ==
    {"fitting_modules", "module_keys", "sys_modules", "sys_path", "disk"}

\* what a FittingGui and its node have of their own
OwnFields == (DOMAIN World) \ (SharedFields \cup {"log"})

\* FittingGui.__init__: the combo box gets the keys of the dict in dict order
\* (161-162), its first item is current, and line 128 calls moduleUpdate
FittingGui_init(s) ==
    moduleUpdate(
        [s EXCEPT !.input_options = None,
                  !.live_update = FALSE,
                  !.param_signals = [n |-> 0, of |-> "rows"],
                  !.module_items = s.module_keys,
                  !.module_combo = s.module_keys[1],
                  !.model_list = {},
                  !.currentItem = None,
                  !.param_table = <<>>,
                  !.param_conn = 0,
                  !.model_conn = 0,
                  !.liveUpdateCheck = FALSE,
                  !.emitGuiChange = TRUE,
                  !.fitting_options = None,
                  !.heap = [i \in {InId, OutId} |-> None],
                  !.dataIn = None,
                  !.dataOut = None],
        s.module_keys[1])

\* the state as the second widget's handlers see it
PeerWorld ==
    [f \in DOMAIN World |-> IF f \in OwnFields THEN peer[1][f] ELSE World[f]]

\* the state after an operation of the second widget is s
PeerCommit(s) ==
    /\ fitting_modules' = s.fitting_modules
    /\ module_keys' = s.module_keys
    /\ sys_modules' = s.sys_modules
    /\ sys_path' = s.sys_path
    /\ disk' = s.disk
    /\ peer' = Some([f \in OwnFields |-> s[f]])
    /\ log' = s.log
    /\ ops' = ops + 1
    /\ batch' = ZeroBatch
    /\ UNCHANGED <<module_combo, model_list, currentItem, param_table,
                   param_signals, param_conn, model_conn, liveUpdateCheck,
                   live_update, input_options, emitGuiChange, fitting_options,
                   heap, dataIn, dataOut, arrived, module_items>>

\* the program constructs a second FittingGui
NewWidget ==
    /\ ops < MaxOps
    /\ peer = None
    /\ PeerCommit(FittingGui_init(Begin("new", World)))

\* the user presses '+' in the second widget and the file dialog returns
PeerAddUserModule ==
    /\ ops < MaxOps
    /\ peer # None
    /\ \E mod_file \in DialogResults :
          PeerCommit(add_user_module([Begin("peer add", PeerWorld) EXCEPT
                                         !.log.picked = mod_file], mod_file))

\* the user picks a module in the combo box of the second widget
PeerSelectModule ==
    /\ ops < MaxOps
    /\ peer # None
    /\ \E i \in DOMAIN peer[1].module_items :
          /\ peer[1].module_items[i] # peer[1].module_combo
          /\ PeerCommit(setCurrentText(Begin("peer module", PeerWorld),
                                       peer[1].module_items[i]))

NextShared ==
    \/ NewWidget
    \/ AddUserModule
    \/ ModuleRefresh
    \/ PeerAddUserModule
    \/ PeerSelectModule

SpecShared == Init /\ [][NextShared]_vars

\* ------------------------------------------------------------------ claims
IsSingle(d) == Len(d.axes) = 1 /\ Len(d.deps) = 1

\* the last operation was an upstream arrival of a single-axis,
\* single-dependent dataset carrying options while the node had none
AdoptionCase ==
    /\ log.op = "process"
    /\ IsSingle(arrived[1])
    /\ log.entryOpts = None
    /\ arrived[1].opts # None

\* C1 as stated: on adoption the node takes the input's options and notifies
\* the observers, no fit is run in that invocation and the output is the
\* pass-through copy.
C1_NoFitOnAdoption ==
    AdoptionCase =>
        /\ fitting_options = arrived[1].opts
        /\ log.notified = 1
        /\ log.fitOpts = None
        /\ dataOut = Some(OutId)
        /\ heap[OutId] = arrived

\* C1 amended: on adoption the node takes the input's options, notifies the
\* observers once, and runs the fit with the adopted options in that same
\* invocation; the output carries 'fit' and 'info' exactly when the engine
\* succeeds and is the pass-through copy when it fails.
C1_FitOnAdoption ==
    AdoptionCase =>
        /\ log.adopted
        /\ fitting_options = arrived[1].opts
        /\ log.notified = 1
        /\ log.fitOpts = arrived[1].opts
        /\ log.path = (IF arrived[1].conv THEN "success" ELSE "failure")
        /\ dataOut = Some(OutId)
        /\ (heap[OutId][1].fit # None) = arrived[1].conv
        /\ (heap[OutId][1].info # None) = arrived[1].conv
        /\ (~arrived[1].conv => heap[OutId] = arrived)

C1_Witness ==
    /\ AdoptionCase
    /\ log.path = "success"
    /\ heap[OutId][1].fit # None

\* C2: a process call that starts with active options set leaves them as they
\* were and emits no default-options notification, whatever options the input
\* carries.
C2_OnlyUnsetAdopts ==
    /\ log.frame
    /\ (log.calls > 0 /\ log.entryOpts # None) =>
           /\ fitting_options = log.entryOpts
           /\ ~log.adopted

C2_Witness ==
    /\ log.op = "process"
    /\ IsSingle(arrived[1])
    /\ log.entryOpts # None
    /\ arrived[1].opts # None
    /\ arrived[1].opts # log.entryOpts
    /\ log.notified = 0

\* C3 as stated: after 'Reload Input Option' the node's active options are
\* exactly the options carried by the input (here: the input still carries the
\* options the widget remembered).
C3_ReloadRestoresUpstream ==
    (/\ log.op = "reload"
     /\ dataIn # None
     /\ input_options # None
     /\ heap[InId][1].opts = input_options)
        => fitting_options = input_options

\* C4 as stated: once the active options are set, no step unsets them.
C4_NeverBackToUnset ==
    [][fitting_options # None => fitting_options' # None]_vars

\* C5: for an input with more than one axis or more than one dependent,
\* process returns a dataset equal to the input, runs no fit, adopts nothing
\* and notifies nobody, whatever the active options and the input's options.
C5_MultiDimPassThrough ==
    (log.op = "process" /\ ~IsSingle(arrived[1])) =>
        /\ dataOut # None
        /\ heap[dataOut[1]] = arrived
        /\ log.fitOpts = None
        /\ log.notified = 0
        /\ fitting_options = log.entryOpts

C5_Witness ==
    /\ log.op = "process"
    /\ ~IsSingle(arrived[1])
    /\ arrived[1].opts # None
    /\ fitting_options # None

\* C6 as stated: the dataset process returns is an object distinct from its
\* input, and the input object stays as it arrived, also when the output is
\* written to later.
C6_OutputIsACopy ==
    /\ (log.op = "process" /\ dataOut # None) => dataOut # dataIn
    /\ dataIn # None => heap[dataIn[1]] = arrived

\* C7: when the engine reports non-success, the output is a copy equal to the
\* input (no 'fit', no 'info'), the active options are the options the fit was
\* run with (the ones the call started with, when it started with any), and no
\* exception is raised.
C7_FailureIsPassThrough ==
    (log.path = "failure" /\ log.op # "write") =>
        /\ dataOut = Some(OutId)
        /\ heap[OutId] = heap[InId]
        /\ heap[OutId][1].fit = None
        /\ heap[OutId][1].info = None
        /\ fitting_options = log.fitOpts
        /\ (log.entryOpts # None => fitting_options = log.entryOpts)
        /\ log.raised = "none"

C7_Witness ==
    /\ log.op = "process"
    /\ log.path = "failure"
    /\ log.entryOpts # None
    /\ heap[OutId] = arrived

\* C8: when the engine reports success, the output is the input extended with
\* exactly a 'fit' entry (the engine's best fit, on the input's single axis)
\* and the 'info' metadata (the engine's report).
C8_SuccessAttachesFit ==
    (log.path = "success" /\ log.op # "write") =>
        /\ dataOut = Some(OutId)
        /\ log.fitOpts = fitting_options
        /\ heap[OutId][1] =
              [heap[InId][1] EXCEPT
                  !.fit = Some([values |-> <<"best_fit", fitting_options[1].model.name>>,
                                axes |-> <<heap[InId][1].axes[1]>>]),
                  !.info = Some(<<"report", fitting_options[1].model.name>>)]

C8_Witness ==
    /\ log.op = "process"
    /\ log.path = "success"
    /\ heap[OutId][1].fit # None
    /\ heap[OutId][1].info # None

\* C9 as stated: the options the engine is run with always have exactly the
\* parameters their model declares.
C9_EngineGetsValidatedOptions ==
    log.fitOpts # None =>
        DOMAIN log.fitOpts[1].parameters = DeclaredParams(log.fitOpts[1].model)

SelectedFile == fitting_modules[module_combo].file

\* C11 as stated: live update is off at the start; while the 'Live Update' box
\* is unchecked no model selection and no parameter edit raises an
\* options-changed event; every press of 'Fit' raises exactly one event, which
\* carries the state of the widget.
C11_SilentUntilFit ==
    /\ (ops = 0 =>
           ~liveUpdateCheck /\ ~live_update /\ model_conn = 0 /\ param_conn = 0)
    /\ ((~liveUpdateCheck /\ log.op \in {"model", "edit"}) => log.events = 0)
    /\ (log.op = "fit" =>
           /\ log.events = 1
           /\ (~log.adopted => log.entryOpts = fittingOptionGetter(World)))

\* C12 as stated: the tracked row signals are those of the rows that exist;
\* with live update on, the model selection and every existing row are
\* subscribed exactly once; with live update off nothing is subscribed.
C12_SubscriptionsFollowToggle ==
    /\ param_signals.of = "rows"
    /\ param_signals.n = 4 * Len(param_table)
    /\ (liveUpdateCheck =>
           /\ model_conn = 1
           /\ (param_table # <<>> => param_conn = 1))
    /\ (~liveUpdateCheck => model_conn = 0 /\ param_conn = 0)

\* C13: after a refresh of the selected module the model list shows exactly
\* the Fit subclasses that the content now on disk of that module's file
\* defines (the base class Fit is not among them).
C13_RescanShowsCurrentContent ==
    log.op = "refresh" =>
        model_list = FileClasses(SelectedFile, disk[SelectedFile])

C13_Witness ==
    /\ log.op = "refresh"
    /\ fitting_modules[module_combo].ver # disk[SelectedFile]
    /\ model_list # ModelDict(fitting_modules[module_combo])
    /\ model_list = FileClasses(SelectedFile, disk[SelectedFile])

\* C14 as stated: every model name the list shows resolves to a class of the
\* selected module, and the class resolved for the selected model (by
\* modelChanged and by fittingOptionGetter) is the one defined by the module as
\* it was loaded last, not by an earlier load.
C14_ResolvesFreshDefinitions ==
    /\ \A n \in model_list : hasattr(fitting_modules[module_combo], n)
    /\ (currentItem # None /\ log.op \in {"model", "fit"}) =>
           getattr(fitting_modules[module_combo], currentItem[1]).ver
               = sys_modules[fitting_modules[module_combo].name][1].ver

\* the user opened a file whose name is the name of a registered module
NameTaken(file) == SplitPath(file).stem \in DOMAIN fitting_modules

\* a registered module has that file
FileRegistered(file) ==
    \E n \in DOMAIN fitting_modules : fitting_modules[n].file = file

\* C15 as stated: opening a file whose name is taken and which is the file of
\* a registered module changes neither the registry nor the entries of the
\* module combo box.
C15_SameFileIsNoOp ==
    [][(/\ log'.op = "add"
        /\ log'.picked \in Files
        /\ NameTaken(log'.picked)
        /\ FileRegistered(log'.picked))
       => /\ fitting_modules' = fitting_modules
          /\ module_items' = module_items]_vars

\* C16 as stated: opening a file whose name is taken and which is the file of
\* no registered module registers it as 'name(directory)': the new entry has
\* the opened file, and every earlier entry is kept as it was.
C16_OtherFileIsDisambiguated ==
    [][(/\ log'.op = "add"
        /\ log'.picked \in Files
        /\ NameTaken(log'.picked)
        /\ ~FileRegistered(log'.picked))
       => LET key == SplitPath(log'.picked).stem \o "("
                        \o SplitPath(log'.picked).dir \o ")"
          IN /\ key \in DOMAIN fitting_modules'
             /\ fitting_modules'[key].file = log'.picked
             /\ \A n \in DOMAIN fitting_modules :
                   /\ n \in DOMAIN fitting_modules'
                   /\ fitting_modules'[n] = fitting_modules[n]]_vars

\* C17 as stated: when the node has no options and the input carries options
\* whose model is defined by a file of no registered module, no fit is run:
\* the output is the pass-through copy and no exception is raised.
C17_UnresolvedModelFallsBack ==
    (/\ log.op = "process"
     /\ IsSingle(arrived[1])
     /\ log.entryOpts = None
     /\ arrived[1].opts # None
     /\ arrived[1].opts[1].model.file \notin log.entryFiles)
        => /\ log.fitOpts = None
           /\ dataOut = Some(OutId)
           /\ heap[OutId] = arrived
           /\ log.raised = "none"

\* C18 as stated: the options delivered to the node while the option setter
\* of the widget is at work (reload, adoption) are never a state the setter
\* has applied only in part: each is the state the widget has when the setter
\* is done.
C18_NoTornSnapshot ==
    \A o \in log.during : o = fittingOptionGetter(World)

\* C19: when no model is selected the getter returns None and the table has
\* no rows; when one is selected and the getter returns options, the rows of
\* the table, the parameters of the options and the declared parameters of
\* the returned model class are the same names, each once.
C19_GetterMatchesTable ==
    /\ currentItem = None =>
           /\ fittingOptionGetter(World) = None
           /\ param_table = <<>>
    /\ (currentItem # None /\ ~GetterRaises(World)) =>
           LET o == fittingOptionGetter(World)[1]
               rows == {param_table[i].name : i \in DOMAIN param_table}
           IN /\ DOMAIN o.parameters = rows
              /\ rows = DeclaredParams(o.model)
              /\ Len(param_table) = Cardinality(rows)
              /\ o.model.name = currentItem[1]

C19_Witness ==
    /\ log.op = "reload"
    /\ liveUpdateCheck
    /\ currentItem = Some("Line")
    /\ {param_table[i].name : i \in DOMAIN param_table} = {"m", "b"}
    /\ fittingOptionGetter(World) # None

\* the directories of sys.path that have a file for the module name
DirsWith(name) ==
    {sys_path[i] : i \in {j \in DOMAIN sys_path : FilesIn(sys_path[j], name) # {}}}

\* C20: importing a registered module again by its name finds the file the
\* registered module object was loaded from, and after a refresh the module
\* loaded last has that file, also when further directories of sys.path hold
\* a file of the same name.
C20_RescanReadsRegisteredFile ==
    /\ \A n \in DOMAIN fitting_modules :
          find_spec(sys_path, fitting_modules[n].name)
              = Some(fitting_modules[n].file)
    /\ (log.op = "refresh" /\ log.raised = "none") =>
          /\ sys_modules[fitting_modules[module_combo].name] # None
          /\ sys_modules[fitting_modules[module_combo].name][1].file
                 = SelectedFile

C20_Witness ==
    /\ log.op = "refresh"
    /\ fitting_modules[module_combo].name = "decay"
    /\ Cardinality(DirsWith("decay")) >= 2
    /\ sys_modules["decay"] # None
    /\ sys_modules["decay"][1].file = SelectedFile

\* the entries of a module combo box are exactly the keys of a registry
SelectorIsRegistry(items, registry) ==
    /\ {items[i] : i \in DOMAIN items} = DOMAIN registry
    /\ Len(items) = Cardinality(DOMAIN registry)

\* C21 as stated: in every widget, whichever widget sources were added in, the
\* entries of the module combo box are exactly the keys of the registry the
\* widget uses (self.fitting_modules, for every widget the dict
\* INITIAL_MODULES), and adding a source in one widget does not change the
\* registry the other widget uses.
C21_SelectorsAreRegistryKeys ==
    /\ [](/\ SelectorIsRegistry(module_items, fitting_modules)
          /\ peer # None
                => SelectorIsRegistry(peer[1].module_items, fitting_modules))
    /\ [][(\/ log'.op = "add" /\ peer # None
           \/ log'.op = "peer add")
          => fitting_modules' = fitting_modules]_vars

====
